---------------------------- MODULE Spec2Model ----------------------------
(***************************************************************************)
(* A model of sklearn_keras_wrap/wrappers.py: the scikit-learn estimator   *)
(* facade over a Keras model (BaseWrapper, KerasClassifier,                *)
(* KerasRegressor).                                                        *)
(*                                                                         *)
(* Two specifications share the module:                                    *)
(*   Spec        one estimator instance driven through fit, predict,       *)
(*               predict_proba, score and set_params;                      *)
(*   SpecLabels  the label pre-/post-processing functions applied to       *)
(*               bounded label arrays.                                     *)
(*                                                                         *)
(* Arrays are numpy-like records [dtype, shape, data]: shape is <<n>> or   *)
(* <<n, c>>, data is the row-major sequence of entries.  Entries are       *)
(* integers: for dtype "int" the integer itself, for dtype "str" the rank  *)
(* of a string in sorted order, for dtype "float" a real that is not       *)
(* integral (only its identity and order matter), for dtype "prob" a       *)
(* probability in percent.                                                 *)
(***************************************************************************)
EXTENDS Integers, Sequences, FiniteSets, TLC

VARIABLES
    kind,        \* the estimator's class: "classifier" or "regressor"
    hasCall,     \* whether the estimator's class implements __call__
    build_fn,    \* self.build_fn
    sk,          \* the sk_params attributes: name -> value (self._sk_params is its domain)
    fitted,      \* the attributes fit sets: model_, is_fitted_, history_, label metadata
    registry,    \* BaseWrapper._legal_params_fns, shared by all instances
    last,        \* observation of the latest call: its inputs, outcome, model operations invoked
    resolved,    \* history: the form the latest build-spec resolution gave, and build_fn then
    lab,         \* SpecLabels: the label array under test and the stages of its round trip
    _sk_params,  \* self._sk_params: the keyword names captured at construction (None is {})
    pickled      \* the state the latest __getstate__ returned

vars ==
    <<kind, hasCall, build_fn, sk, fitted, registry, last, resolved, lab,
      _sk_params, pickled>>

-----------------------------------------------------------------------------
(* numpy helpers *)

NdArray(dtype, shape, data) == [dtype |-> dtype, shape |-> shape, data |-> data]

NRows(a) == a.shape[1]

NCols(a) == a.shape[2]

At(a, i, j) == a.data[(i - 1) * NCols(a) + j]

Range(s) == {s[k] : k \in DOMAIN s}

SetMax(S) == CHOOSE m \in S : \A x \in S : x <= m

SetMin(S) == CHOOSE m \in S : \A x \in S : m <= x

RECURSIVE SortedSeq(_)
SortedSeq(S) ==
    IF S = {} THEN <<>>
    ELSE <<SetMin(S)>> \o SortedSeq(S \ {SetMin(S)})

RECURSIVE Flatten(_)
Flatten(ss) ==
    IF ss = <<>> THEN <<>> ELSE Head(ss) \o Flatten(Tail(ss))

\* y.reshape(-1, 1)
Reshape2D(y) == [y EXCEPT !.shape = <<Len(y.data), 1>>]

\* np.unique(y): the sorted distinct entries
np_unique(y) == SortedSeq(Range(y.data))

\* np.searchsorted(classes_, y): per entry, the number of classes below it
np_searchsorted(classes_, y) ==
    [y EXCEPT !.dtype = "int",
              !.data = [k \in DOMAIN y.data |->
                           Cardinality({c \in Range(classes_) : c < y.data[k]})]]

\* np.split(y, y.shape[1], axis=1): one (n, 1) block per column
np_split(y) ==
    [j \in 1..NCols(y) |->
        NdArray(y.dtype, <<NRows(y), 1>>, [i \in 1..NRows(y) |-> At(y, i, j)])]

\* np.where with the comparison of line 872 made inclusive (y_ >= 0.5)
np_where_half_Inclusive(y_) ==
    [y_ EXCEPT !.dtype = "int",
               !.data = [k \in DOMAIN y_.data |-> IF y_.data[k] >= 50 THEN 1 ELSE 0]]

\* np.where(y_ > 0.5, 1, 0)
np_where_half(y_) ==
    [y_ EXCEPT !.dtype = "int",
               !.data = [k \in DOMAIN y_.data |-> IF y_.data[k] > 50 THEN 1 ELSE 0]]

\* np.argmax(y_, axis=1): per row the first position of the row's maximum
np_argmax(y_) ==
    NdArray("int", <<NRows(y_)>>,
        [i \in 1..NRows(y_) |->
            LET row == [j \in 1..NCols(y_) |-> At(y_, i, j)]
                m == SetMax(Range(row))
            IN  SetMin({j \in 1..NCols(y_) : row[j] = m}) - 1])

\* classes_[idx] is an IndexError when some index is past the vocabulary
IndexInRange(classes_, idx) ==
    \A k \in DOMAIN idx.data : idx.data[k] < Len(classes_)

\* classes_[idx]: fancy indexing keeps the shape of idx
np_take(classes_, idx) ==
    [idx EXCEPT !.data = [k \in DOMAIN idx.data |-> classes_[idx.data[k] + 1]]]

\* the (n, c) view column_stack takes of one array: a 1-D array is a column
AsColumns(a) == IF Len(a.shape) = 1 THEN Reshape2D(a) ELSE a

\* np.column_stack(arrays)
np_column_stack(arrays) ==
    LET cols == [k \in DOMAIN arrays |-> AsColumns(arrays[k])]
        n == NRows(cols[1])
    IN  NdArray(cols[1].dtype,
                <<n, Len(Flatten([k \in DOMAIN cols |-> [j \in 1..NCols(cols[k]) |-> j]]))>>,
                Flatten([i \in 1..n |->
                    Flatten([k \in DOMAIN cols |->
                        [j \in 1..NCols(cols[k]) |-> At(cols[k], i, j)]])]))

\* np.concatenate([1 - y_, y_], axis=1) for an (n, 1) probability column
np_concat_complement(y_) ==
    NdArray(y_.dtype, <<NRows(y_), 2>>,
        Flatten([i \in 1..NRows(y_) |-> <<100 - At(y_, i, 1), At(y_, i, 1)>>]))

\* np.squeeze(y): the dimensions of length one are dropped
np_squeeze(y) ==
    [y EXCEPT !.shape = SelectSeq(y.shape, LAMBDA d : d # 1)]

\* to_categorical(y_): one-hot rows of width max(y_) + 1
to_categorical(y_) ==
    LET w == SetMax(Range(y_.data)) + 1
    IN  NdArray("prob", <<Len(y_.data), w>>,
            Flatten([k \in 1..Len(y_.data) |->
                [j \in 1..w |-> IF j = y_.data[k] + 1 THEN 100 ELSE 0]]))

-----------------------------------------------------------------------------
(* Label Shape Negotiator *)

\* sklearn.utils.multiclass.type_of_target, as called on the 2-D label array:
\* a multi-column integer array with fewer than three distinct entries is an
\* indicator matrix; a float array with a non-integral entry is continuous;
\* more than two distinct entries or more than one column is multiclass.
type_of_target(y) ==
    LET suffix == IF NCols(y) > 1 THEN "-multioutput" ELSE ""
        nuniq == Cardinality(Range(y.data))
    IN  IF NCols(y) > 1 /\ y.dtype = "int" /\ nuniq < 3 THEN "multilabel-indicator"
        ELSE IF y.dtype = "float" THEN "continuous" \o suffix
        ELSE IF nuniq > 2 \/ NCols(y) > 1 THEN "multiclass" \o suffix
        ELSE "binary"

\* BaseWrapper._pre_process_y: a 1-D y becomes a column
BaseWrapper_pre_process_y(y) ==
    IF Len(y.shape) = 1 THEN Reshape2D(y) ELSE y

\* the label attributes of an estimator on which no fit has run; classes_ and
\* n_classes_ are kept in their list form (one entry per output): the code
\* unwraps a one-entry list on storing it and _post_process_y wraps it again
\* when n_outputs_ is 1
NoMeta ==
    [classes_ |-> <<>>, n_outputs_ |-> 0, n_outputs_keras_ |-> 0,
     n_classes_ |-> <<>>, cls_type_ |-> "unset"]

\* KerasClassifier._pre_process_y: [err, y (the output blocks), extra_args]
KerasClassifier_pre_process_y(y0) ==
    LET y == BaseWrapper_pre_process_y(y0)
        cls_type_ == type_of_target(y)
        single == <<np_searchsorted(np_unique(y), y)>>
        split == np_split(y)
        blocks ==
            IF cls_type_ \in {"binary", "multiclass"} THEN single ELSE split
        classes_ ==
            IF cls_type_ \in {"binary", "multiclass"} THEN <<np_unique(y)>>
            ELSE IF cls_type_ = "multilabel-indicator"
                 THEN [j \in 1..NCols(y) |-> <<0, 1>>]
                 ELSE [j \in 1..NCols(y) |-> np_unique(split[j])]
        n_outputs_keras_ ==
            IF cls_type_ \in {"binary", "multiclass"} THEN 1 ELSE Len(split)
    IN  IF cls_type_ \notin {"binary", "multiclass", "multilabel-indicator",
                             "multiclass-multioutput"}
        THEN [err |-> "ValueError", y |-> <<>>, extra_args |-> NoMeta]
        ELSE [err |-> "none", y |-> blocks,
              extra_args |->
                [classes_ |-> classes_,
                 n_outputs_ |-> Len(classes_),
                 n_outputs_keras_ |-> n_outputs_keras_,
                 n_classes_ |-> [j \in DOMAIN classes_ |-> Len(classes_[j])],
                 cls_type_ |-> cls_type_]]

\* KerasRegressor._pre_process_y: one block holding all columns; only
\* n_outputs_ and n_outputs_keras_ are in extra_args
KerasRegressor_pre_process_y(y0) ==
    LET y == BaseWrapper_pre_process_y(y0)
    IN  [err |-> "none", y |-> <<y>>,
         extra_args |-> [n_outputs_ |-> NCols(y), n_outputs_keras_ |-> 1]]

EmptyArray == NdArray("int", <<>>, <<>>)

\* one output of the loop of KerasClassifier._post_process_y:
\* [err, pred (the class predictions), proba (the block as stacked later)]
ClassifierPostBlock(cls_type_, y_, classes_) ==
    LET idx == IF cls_type_ = "binary"
               THEN IF NCols(y_) = 1 THEN np_where_half(y_)
                    ELSE np_argmax(np_where_half(y_))
               ELSE np_argmax(y_)
    IN  IF cls_type_ = "multilabel-indicator"
        THEN [err |-> "none", pred |-> np_where_half(y_), proba |-> y_]
        ELSE IF cls_type_ \notin {"binary", "multiclass", "multiclass-multioutput"}
        THEN [err |-> "ValueError", pred |-> EmptyArray, proba |-> y_]
        ELSE IF ~IndexInRange(classes_, idx)
        THEN [err |-> "IndexError", pred |-> EmptyArray, proba |-> y_]
        ELSE [err |-> "none", pred |-> np_take(classes_, idx),
              proba |-> IF cls_type_ = "binary" /\ NCols(y_) = 1
                        THEN np_concat_complement(y_) ELSE y_]

\* KerasClassifier._post_process_y on the model's outputs y (a list of
\* blocks; a bare array is wrapped into a one-element list first):
\* [err, y (predicted labels), class_probabilities]
KerasClassifier_post_process_y(meta, y) ==
    LET n == IF Len(y) < Len(meta.classes_) THEN Len(y) ELSE Len(meta.classes_)
        per == [i \in 1..n |-> ClassifierPostBlock(meta.cls_type_, y[i], meta.classes_[i])]
        bad == {i \in 1..n : per[i].err # "none"}
        probs == [i \in DOMAIN y |-> IF i <= n THEN per[i].proba ELSE y[i]]
    IN  IF bad # {}
        THEN [err |-> per[SetMin(bad)].err, y |-> EmptyArray,
              class_probabilities |-> EmptyArray]
        ELSE [err |-> "none",
              y |-> np_squeeze(np_column_stack([i \in 1..n |-> per[i].pred])),
              class_probabilities |-> np_squeeze(np_column_stack(probs))]

\* KerasRegressor._post_process_y on the model's single output array
KerasRegressor_post_process_y(y) ==
    [err |-> "none", y |-> np_squeeze([y EXCEPT !.dtype = "float"]),
     class_probabilities |-> EmptyArray]

-----------------------------------------------------------------------------
(* SpecLabels: pre-processing, an exactly encoding model output, post-processing *)

\* bound: label arrays have at most MaxRows samples
MaxRows == 3

\* the label values, the column counts and the dtypes of the arrays tried
LabelVals == {0, 1, 2}

LabelCols == {1, 2}

LabelShapes ==
    {<<n>> : n \in 1..MaxRows} \cup {<<n, c>> : n \in 1..MaxRows, c \in LabelCols}

ShapeSize(shape) == IF Len(shape) = 1 THEN shape[1] ELSE shape[1] * shape[2]

\* an array type_of_target would take for an indicator matrix although it
\* holds an entry other than 0 and 1; such arrays are not tried
OddIndicator(y) ==
    /\ Len(y.shape) = 2
    /\ type_of_target(y) = "multilabel-indicator"
    /\ ~(Range(y.data) \subseteq {0, 1})

\* the arrays of one dtype; string labels are tried as single-column arrays
LabelArrays(dtype) ==
    UNION {{y \in {NdArray(dtype, shape, data) :
                      data \in [1..ShapeSize(shape) -> LabelVals]} : ~OddIndicator(y)}
            : shape \in {sh \in LabelShapes :
                            dtype = "str" => ShapeSize(sh) = sh[1]}}

NoResult == [err |-> "none", y |-> EmptyArray, class_probabilities |-> EmptyArray]

LabIdle ==
    [est |-> "none", y |-> EmptyArray, stage |-> "idle", blocks |-> <<>>,
     meta |-> NoMeta, out |-> <<>>, res |-> NoResult]

\* setattr(self, attr_name, attr_val) for each item of extra_args (fit, lines 459-460)
SetExtraArgs(meta, extra_args) ==
    [k \in DOMAIN meta |-> IF k \in DOMAIN extra_args THEN extra_args[k] ELSE meta[k]]

\* self._pre_process_y of the estimator's class
PreProcessY(est, y) ==
    IF est = "classifier" THEN KerasClassifier_pre_process_y(y)
    ELSE KerasRegressor_pre_process_y(y)

\* self._post_process_y of the estimator's class; the regressor takes the
\* model's single output array
PostProcessY(est, meta, out) ==
    IF est = "classifier" THEN KerasClassifier_post_process_y(meta, out)
    ELSE KerasRegressor_post_process_y(out[1])

\* a probability column holding exactly the block's values
ExactColumn(block) ==
    [block EXCEPT !.dtype = "prob",
                  !.data = [k \in DOMAIN block.data |-> 100 * block.data[k]]]

\* the model output that encodes one block exactly: the block itself for a
\* regressor, a single probability column for indicator blocks and (enc =
\* "column") binary blocks, else the one-hot rows of the block's values
ExactOutput(est, cls_type_, block, enc) ==
    IF est = "regressor" THEN block
    ELSE IF cls_type_ = "multilabel-indicator" THEN ExactColumn(block)
    ELSE IF cls_type_ = "binary" /\ enc = "column" THEN ExactColumn(block)
    ELSE to_categorical(block)

InitLabelsLab ==
    \E est \in {"classifier", "regressor"} :
        \E dtype \in (IF est = "classifier" THEN {"int", "str", "float"}
                      ELSE {"int", "float"}) :
            \E y \in LabelArrays(dtype) :
                lab = [LabIdle EXCEPT !.est = est, !.y = y, !.stage = "raw"]

LabPreProcess ==
    /\ lab.stage = "raw"
    /\ LET r == PreProcessY(lab.est, lab.y)
       IN  lab' = IF r.err # "none"
                  THEN [lab EXCEPT !.stage = "rejected", !.res = [NoResult EXCEPT !.err = r.err]]
                  ELSE [lab EXCEPT !.stage = "pre", !.blocks = r.y,
                                   !.meta = SetExtraArgs(NoMeta, r.extra_args)]
    /\ UNCHANGED <<_sk_params, pickled, kind, hasCall, build_fn, sk, fitted, registry, last, resolved>>

LabEncode ==
    /\ lab.stage = "pre"
    /\ \E enc \in {"column", "onehot"} :
        /\ enc = "onehot" /\ lab.meta.cls_type_ = "binary" => lab.meta.n_classes_[1] = 2
        /\ lab' = [lab EXCEPT !.stage = "enc",
                      !.out = [i \in DOMAIN lab.blocks |->
                                 ExactOutput(lab.est, lab.meta.cls_type_, lab.blocks[i], enc)]]
    /\ UNCHANGED <<_sk_params, pickled, kind, hasCall, build_fn, sk, fitted, registry, last, resolved>>

\* probabilities (in percent) a sigmoid output may emit, on both sides of 0.5
\* and 0.5 itself
ProbVals == {30, 50, 70}

\* a model with a single sigmoid output emits one probability per sample,
\* whatever the labels were
LabEmit ==
    /\ lab.stage = "pre"
    /\ lab.est = "classifier"
    /\ lab.meta.cls_type_ = "binary"
    /\ \E p \in [1..NRows(lab.blocks[1]) -> ProbVals] :
        lab' = [lab EXCEPT !.stage = "emit",
                          !.out = <<NdArray("prob", <<NRows(lab.blocks[1]), 1>>, p)>>]
    /\ UNCHANGED <<_sk_params, pickled, kind, hasCall, build_fn, sk, fitted, registry, last, resolved>>

\* _post_process_y on the model output: an exactly encoding output ends in
\* stage "post", an emitted one in stage "decoded"
LabPostProcess ==
    /\ lab.stage \in {"enc", "emit"}
    /\ lab' = [lab EXCEPT !.stage = IF lab.stage = "enc" THEN "post" ELSE "decoded",
                          !.res = PostProcessY(lab.est, lab.meta, lab.out)]
    /\ UNCHANGED <<_sk_params, pickled, kind, hasCall, build_fn, sk, fitted, registry, last, resolved>>

NextLabels == LabPreProcess \/ LabEncode \/ LabEmit \/ LabPostProcess

-----------------------------------------------------------------------------
(* The collaborators: build specifications and the models they build *)

\* the values build_fn takes: absent, a plain function, an instance of a class
\* implementing __call__, a compiled and an uncompiled Keras Model instance,
\* and a value that is not callable
BuildSpecs == {"None", "fnA", "objC", "modelM", "modelU", "junk"}

\* isinstance(build_fn, Model)
IsModel(b) == b \in {"modelM", "modelU"}

\* inspect.isfunction(build_fn)
IsFunction(b) == b = "fnA"

\* callable(build_fn) and hasattr(build_fn.__class__, "__call__")
IsCallable(b) == b \in {"fnA", "objC"}

\* the names a callable declares as explicitly named parameters (what has_arg
\* answers), among the names in play
Declares(fn) ==
    CASE fn = "fnA" -> {"X", "y", "sample_weight", "batch_size"}
      [] fn = "objC.__call__" -> {"y", "sample_weight"}
      [] fn = "self.__call__" -> {"X", "batch_size"}
      [] fn = "_clone_prebuilt_model" -> {"build_fn"}
      [] fn = "Model.fit" -> {"batch_size", "sample_weight"}
      [] fn = "Custom.fit" -> {"batch_size"}
      [] fn = "Model.predict" -> {"batch_size"}
      [] OTHER -> {}

\* the callables that also take a variadic keyword catch-all (**kwargs)
AcceptsVarKw(fn) == fn \in {"objC.__call__", "Custom.fit"}

\* has_arg(fn, name) with accept_all left at False: only an explicitly named
\* parameter counts
has_arg(fn, name) == name \in Declares(fn)

NoModel ==
    [src |-> "none", heads |-> 0, fit |-> "none", predict |-> "none",
     loss |-> "none", trained |-> FALSE, weights |-> "none"]

\* the model a build callable returns: its output heads, its fit and predict
\* operations, its loss; not trained yet, its weights as initialised
BuiltModel(final_build_fn) ==
    CASE final_build_fn = "fnA" ->
            [src |-> "fnA", heads |-> 1, fit |-> "Model.fit",
             predict |-> "Model.predict", loss |-> "binary_crossentropy",
             trained |-> FALSE, weights |-> "initial"]
      [] final_build_fn = "objC.__call__" ->
            [src |-> "objC.__call__", heads |-> 2, fit |-> "Custom.fit",
             predict |-> "Model.predict", loss |-> "categorical_crossentropy",
             trained |-> FALSE, weights |-> "initial"]
      [] final_build_fn = "self.__call__" ->
            [src |-> "self.__call__", heads |-> 1, fit |-> "Model.fit",
             predict |-> "Model.predict", loss |-> "categorical_crossentropy",
             trained |-> FALSE, weights |-> "initial"]
      [] OTHER ->
            [src |-> "_clone_prebuilt_model", heads |-> 1, fit |-> "Model.fit",
             predict |-> "Model.predict", loss |-> "mean_squared_error",
             trained |-> FALSE, weights |-> "initial"]

\* final_build_fn(**build_args): _clone_prebuilt_model raises when the model
\* instance it is given carries no training configuration
CallBuildFn(final_build_fn, build_args) ==
    IF final_build_fn = "_clone_prebuilt_model" /\ build_args["build_fn"] # "modelM"
    THEN [err |-> "ValueError", model |-> NoModel]
    ELSE [err |-> "none", model |-> BuiltModel(final_build_fn)]

\* BaseWrapper._legal_params_fns as the class body leaves it
InitialRegistry ==
    <<"Sequential.evaluate", "Sequential.fit", "Sequential.predict",
      "Model.evaluate", "Model.fit", "Model.predict">>

\* the bound methods of a built model that KNOWN_KERAS_FN_NAMES names
ModelKnownFns == <<"model.fit", "model.evaluate", "model.predict">>

-----------------------------------------------------------------------------
(* Parameter Router *)

\* {}
EmptyDict == [n \in {} |-> ""]

\* {**a, **b}
DictMerge(a, b) ==
    [n \in DOMAIN a \cup DOMAIN b |-> IF n \in DOMAIN b THEN b[n] ELSE a[n]]

\* self.__dict__, restricted to the attributes whose names some callable in
\* play declares: build_fn and the sk_params attributes
SelfDict ==
    [n \in {"build_fn"} \cup DOMAIN sk |-> IF n = "build_fn" THEN build_fn ELSE sk[n]]

\* BaseWrapper._filter_params: `params_to_check or self.__dict__` takes the
\* instance attributes when params_to_check is None and also when it is empty
_filter_params(fn, params_to_check) ==
    LET pool == IF DOMAIN params_to_check = {} THEN SelfDict ELSE params_to_check
    IN  [n \in {m \in DOMAIN pool : has_arg(fn, m)} |-> pool[n]]

-----------------------------------------------------------------------------
(* Attribute values as objects, for state capture.  A value is described   *)
(* by its type: "plain" (copy.deepcopy returns an equal copy), "Model" (a  *)
(* Keras Model, which copy.deepcopy cannot copy), "History" (the object    *)
(* model.fit returns, whose attribute model is the model fitted),          *)
(* "SavedKerasModel" and "absent" (no such attribute).                     *)

PlainObj(v) == [type |-> "plain", v |-> v]

ModelObj(m) == [type |-> "Model", m |-> m]

HistoryObj(model) == [type |-> "History", model |-> model]

SavedObj(saved) == [type |-> "SavedKerasModel", saved |-> saved]

AbsentObj == [type |-> "absent"]

-----------------------------------------------------------------------------
(* Estimator Facade: fit *)

\* the attributes only fit sets, on an estimator never fitted (is_fitted_ is
\* the class attribute False)
NotFitted ==
    [model_ |-> NoModel, is_fitted_ |-> FALSE, history_ |-> AbsentObj,
     meta |-> NoMeta]

\* the observation of a call: inputs, outcome, the steps taken in order (calls)
\* and what the build callable and the model's operations were handed
NoCall ==
    [op |-> "init", err |-> "none", y |-> EmptyArray, sample_weight |-> "None",
     kwargs |-> EmptyDict, params |-> <<>>, calls |-> <<>>,
     final_build_fn |-> "none", build_args |-> EmptyDict,
     fit_args |-> EmptyDict, fit_y |-> <<>>, predict_args |-> EmptyDict,
     ret |-> EmptyArray, returns |-> "none", fn |-> "none", pool |-> EmptyDict,
     res |-> EmptyDict]

\* _check_build_fn resolving a fitted estimator to a clone of its stored
\* model, whatever build_fn holds
_check_build_fn_WarmStart(b) ==
    IF fitted.is_fitted_
    THEN [err |-> "none", final_build_fn |-> "_clone_prebuilt_model"]
    ELSE IF b = "None"
    THEN IF ~hasCall THEN [err |-> "ValueError", final_build_fn |-> "none"]
         ELSE [err |-> "none", final_build_fn |-> "self.__call__"]
    ELSE IF IsModel(b)
    THEN [err |-> "none", final_build_fn |-> "_clone_prebuilt_model"]
    ELSE IF IsFunction(b)
    THEN IF hasCall THEN [err |-> "ValueError", final_build_fn |-> "none"]
         ELSE [err |-> "none", final_build_fn |-> b]
    ELSE IF IsCallable(b)
    THEN IF hasCall THEN [err |-> "ValueError", final_build_fn |-> "none"]
         ELSE [err |-> "none", final_build_fn |-> b \o ".__call__"]
    ELSE [err |-> "ValueError", final_build_fn |-> "none"]

\* _check_build_fn without the hasattr(self, "__call__") conflict checks of
\* lines 194 and 206
_check_build_fn_NoConflictCheck(b) ==
    IF b = "None"
    THEN IF ~hasCall THEN [err |-> "ValueError", final_build_fn |-> "none"]
         ELSE [err |-> "none", final_build_fn |-> "self.__call__"]
    ELSE IF IsModel(b)
    THEN [err |-> "none", final_build_fn |-> "_clone_prebuilt_model"]
    ELSE IF IsFunction(b)
    THEN [err |-> "none", final_build_fn |-> b]
    ELSE IF IsCallable(b)
    THEN [err |-> "none", final_build_fn |-> b \o ".__call__"]
    ELSE [err |-> "ValueError", final_build_fn |-> "none"]

\* BaseWrapper._check_build_fn(self.build_fn), up to the registry append:
\* [err, final_build_fn]
_check_build_fn(b) ==
    IF b = "None"
    THEN IF ~hasCall THEN [err |-> "ValueError", final_build_fn |-> "none"]
         ELSE [err |-> "none", final_build_fn |-> "self.__call__"]
    ELSE IF IsModel(b)
    THEN [err |-> "none", final_build_fn |-> "_clone_prebuilt_model"]
    ELSE IF IsFunction(b)
    THEN IF hasCall THEN [err |-> "ValueError", final_build_fn |-> "none"]
         ELSE [err |-> "none", final_build_fn |-> b]
    ELSE IF IsCallable(b)
    THEN IF hasCall THEN [err |-> "ValueError", final_build_fn |-> "none"]
         ELSE [err |-> "none", final_build_fn |-> b \o ".__call__"]
    ELSE [err |-> "ValueError", final_build_fn |-> "none"]

\* the form of build specification a resolved build callable stands for
\* (the branches of _check_build_fn)
FormOf(final_build_fn) ==
    IF final_build_fn = "_clone_prebuilt_model" THEN "prebuilt model"
    ELSE IF final_build_fn \in {"self.__call__", "objC.__call__"}
    THEN "callable object"
    ELSE "function"

NotResolved == [form |-> "none", build_fn |-> "none"]

\* the build_args of _build_keras_model (lines 250-268)
BuildArgs(final_build_fn, X, y, sample_weight, kwargs) ==
    LET model_args == _filter_params(final_build_fn, EmptyDict)
        sample_weight_arg ==
            _filter_params(final_build_fn, [sample_weight |-> sample_weight])
        X_y_args == _filter_params(final_build_fn, [X |-> X, y |-> y])
        kw == _filter_params(final_build_fn, kwargs)
    IN  DictMerge(DictMerge(DictMerge(model_args, X_y_args), sample_weight_arg), kw)

\* BaseWrapper._build_keras_model: [err, model, registry, final_build_fn,
\* build_args, calls]
_build_keras_model(X, y, sample_weight, kwargs) ==
    LET chk == _check_build_fn(build_fn)
        final_build_fn == chk.final_build_fn
        build_args == BuildArgs(final_build_fn, X, y, sample_weight, kwargs)
        built == CallBuildFn(final_build_fn, build_args)
    IN  IF chk.err # "none"
        THEN [err |-> chk.err, model |-> NoModel, registry |-> registry,
              final_build_fn |-> "none", build_args |-> EmptyDict,
              calls |-> <<"_check_build_fn">>]
        ELSE IF built.err # "none"
        THEN [err |-> built.err, model |-> NoModel,
              registry |-> Append(registry, final_build_fn),
              final_build_fn |-> final_build_fn, build_args |-> build_args,
              calls |-> <<"_check_build_fn", "final_build_fn">>]
        ELSE [err |-> "none", model |-> built.model,
              registry |-> Append(registry, final_build_fn) \o ModelKnownFns,
              final_build_fn |-> final_build_fn, build_args |-> build_args,
              calls |-> <<"_check_build_fn", "final_build_fn">>]

\* KerasClassifier._check_output_model_compatibility, lines 908-916: a block
\* of one column is one-hot encoded when the model's loss is categorical
\* cross-entropy
EncodeForLoss(est, model, meta, y) ==
    IF est = "classifier"
    THEN [i \in DOMAIN y |->
            IF i <= meta.n_outputs_ /\ model.loss = "categorical_crossentropy"
               /\ NCols(y[i]) = 1
            THEN to_categorical(y[i]) ELSE y[i]]
    ELSE y

\* _check_output_model_compatibility of the estimator's class: [err, y, bare];
\* a single block is handed on bare, several as a tuple of squeezed arrays
_check_output_model_compatibility(est, model, meta, y0) ==
    LET y == EncodeForLoss(est, model, meta, y0)
    IN  IF meta.n_outputs_keras_ # Len(y)
        THEN [err |-> "RuntimeError", y |-> <<>>, bare |-> FALSE]
        ELSE IF Len(y) = 1 THEN [err |-> "none", y |-> y, bare |-> TRUE]
        ELSE [err |-> "none", y |-> [i \in DOMAIN y |-> np_squeeze(y[i])],
              bare |-> FALSE]

\* the kwargs pool of _fit_keras_model after line 309
FitKwargsPool(sample_weight, kwargs) ==
    IF sample_weight # "None"
    THEN DictMerge(kwargs, [sample_weight |-> sample_weight])
    ELSE kwargs

\* _fit_keras_model without the raise of line 314: an unsupported
\* sample_weight is dropped and the model is fitted
_fit_keras_model_NoRaise(model, sample_weight, kwargs0, raises) ==
    LET kwargs == _filter_params(model.fit, FitKwargsPool(sample_weight, kwargs0))
        fit_args == DictMerge(_filter_params(model.fit, EmptyDict), kwargs)
    IN  IF raises
        THEN [err |-> "ModelError", invoked |-> TRUE, fit_args |-> fit_args,
              calls |-> <<"model.fit">>, is_fitted_ |-> fitted.is_fitted_,
              ret |-> "none"]
        ELSE [err |-> "none", invoked |-> TRUE, fit_args |-> fit_args,
              calls |-> <<"model.fit", "is_fitted_">>, is_fitted_ |-> TRUE,
              ret |-> "self"]

\* _fit_keras_model with the merge of line 325 turned round: the instance
\* attributes overwrite the call's keyword arguments
_fit_keras_model_AttrsWin(model, sample_weight, kwargs0, raises) ==
    LET kwargs == _filter_params(model.fit, FitKwargsPool(sample_weight, kwargs0))
        fit_args == DictMerge(kwargs, _filter_params(model.fit, EmptyDict))
    IN  IF sample_weight # "None" /\ "sample_weight" \notin DOMAIN kwargs
        THEN [err |-> "ValueError", invoked |-> FALSE, fit_args |-> EmptyDict,
              calls |-> <<>>, is_fitted_ |-> fitted.is_fitted_, ret |-> "none"]
        ELSE IF raises
        THEN [err |-> "ModelError", invoked |-> TRUE, fit_args |-> fit_args,
              calls |-> <<"model.fit">>, is_fitted_ |-> fitted.is_fitted_,
              ret |-> "none"]
        ELSE [err |-> "none", invoked |-> TRUE, fit_args |-> fit_args,
              calls |-> <<"model.fit", "is_fitted_">>, is_fitted_ |-> TRUE,
              ret |-> "self"]

\* _fit_keras_model with line 329 moved before line 327: the fitted flag is
\* set before the model's fit is invoked
_fit_keras_model_FlagFirst(model, sample_weight, kwargs0, raises) ==
    LET kwargs == _filter_params(model.fit, FitKwargsPool(sample_weight, kwargs0))
        fit_args == DictMerge(_filter_params(model.fit, EmptyDict), kwargs)
    IN  IF sample_weight # "None" /\ "sample_weight" \notin DOMAIN kwargs
        THEN [err |-> "ValueError", invoked |-> FALSE, fit_args |-> EmptyDict,
              calls |-> <<>>, is_fitted_ |-> fitted.is_fitted_, ret |-> "none"]
        ELSE IF raises
        THEN [err |-> "ModelError", invoked |-> TRUE, fit_args |-> fit_args,
              calls |-> <<"is_fitted_", "model.fit">>, is_fitted_ |-> TRUE,
              ret |-> "none"]
        ELSE [err |-> "none", invoked |-> TRUE, fit_args |-> fit_args,
              calls |-> <<"is_fitted_", "model.fit">>, is_fitted_ |-> TRUE,
              ret |-> "self"]

\* BaseWrapper._fit_keras_model on the freshly built model; the model's fit is
\* opaque and either returns or raises (raises): [err, invoked, fit_args,
\* calls (the steps taken), is_fitted_ (the flag as the call leaves it), ret]
_fit_keras_model(model, sample_weight, kwargs0, raises) ==
    LET kwargs == _filter_params(model.fit, FitKwargsPool(sample_weight, kwargs0))
        fit_args == DictMerge(_filter_params(model.fit, EmptyDict), kwargs)
    IN  IF sample_weight # "None" /\ "sample_weight" \notin DOMAIN kwargs
        THEN [err |-> "ValueError", invoked |-> FALSE, fit_args |-> EmptyDict,
              calls |-> <<>>, is_fitted_ |-> fitted.is_fitted_, ret |-> "none"]
        ELSE IF raises
        THEN [err |-> "ModelError", invoked |-> TRUE, fit_args |-> fit_args,
              calls |-> <<"model.fit">>, is_fitted_ |-> fitted.is_fitted_,
              ret |-> "none"]
        ELSE [err |-> "none", invoked |-> TRUE, fit_args |-> fit_args,
              calls |-> <<"model.fit", "is_fitted_">>, is_fitted_ |-> TRUE,
              ret |-> "self"]

\* KerasRegressor.fit without the check_array of line 981
LabelsCastable_Unchecked(est, y) == TRUE

\* KerasRegressor.fit, line 981: check_array(y, dtype="float64") raises on an
\* entry that cannot be cast; the classifier has no such check
LabelsCastable(est, y) == est = "regressor" => y.dtype # "str"

\* fit(X, y, sample_weight, **kwargs) of the estimator's class:
\* [fitted, registry, last]
fit(y, sample_weight, kwargs, raises) ==
    LET obs == [NoCall EXCEPT !.op = "fit", !.y = y,
                              !.sample_weight = sample_weight, !.kwargs = kwargs]
        pre == PreProcessY(kind, y)
        meta == SetExtraArgs(fitted.meta, pre.extra_args)
        b == _build_keras_model("fitX", "fitY", sample_weight, kwargs)
        compat == _check_output_model_compatibility(kind, b.model, meta, pre.y)
        f == _fit_keras_model(b.model, sample_weight, kwargs, raises)
        built == [obs EXCEPT !.final_build_fn = b.final_build_fn,
                             !.build_args = b.build_args]
    IN  IF ~LabelsCastable(kind, y)
        THEN [fitted |-> fitted, registry |-> registry,
              last |-> [obs EXCEPT !.err = "ValueError",
                                   !.calls = <<"check_array">>]]
        ELSE IF pre.err # "none"
        THEN [fitted |-> fitted, registry |-> registry,
              last |-> [obs EXCEPT !.err = pre.err,
                                   !.calls = <<"_pre_process_y">>]]
        ELSE IF b.err # "none"
        THEN [fitted |-> [fitted EXCEPT !.meta = meta], registry |-> b.registry,
              last |-> [built EXCEPT !.err = b.err,
                                     !.calls = <<"_pre_process_y">> \o b.calls]]
        ELSE IF compat.err # "none"
        THEN [fitted |-> [fitted EXCEPT !.meta = meta, !.model_ = b.model],
              registry |-> b.registry,
              last |-> [built EXCEPT !.err = compat.err,
                            !.calls = <<"_pre_process_y">> \o b.calls
                                      \o <<"_check_output_model_compatibility">>]]
        ELSE IF ~f.invoked
        THEN [fitted |-> [fitted EXCEPT !.meta = meta, !.model_ = b.model,
                                        !.is_fitted_ = f.is_fitted_],
              registry |-> b.registry,
              last |-> [built EXCEPT !.err = f.err,
                            !.calls = <<"_pre_process_y">> \o b.calls
                                      \o <<"_check_output_model_compatibility">>
                                      \o f.calls]]
        ELSE IF f.err # "none"
        THEN [fitted |-> [fitted EXCEPT !.meta = meta, !.model_ = b.model,
                                        !.is_fitted_ = f.is_fitted_],
              registry |-> b.registry,
              last |-> [built EXCEPT !.err = f.err, !.fit_args = f.fit_args,
                            !.fit_y = compat.y,
                            !.calls = <<"_pre_process_y">> \o b.calls
                                      \o <<"_check_output_model_compatibility">>
                                      \o f.calls]]
        ELSE [fitted |-> [meta |-> meta,
                          model_ |-> [b.model EXCEPT !.trained = TRUE,
                                                     !.weights = "fitted"],
                          history_ |-> HistoryObj(ModelObj([b.model EXCEPT !.trained = TRUE,
                                                                        !.weights = "fitted"])),
                          is_fitted_ |-> f.is_fitted_],
              registry |-> b.registry,
              last |-> [built EXCEPT !.fit_args = f.fit_args, !.fit_y = compat.y,
                            !.returns = f.ret,
                            !.calls = <<"_pre_process_y">> \o b.calls
                                      \o <<"_check_output_model_compatibility">>
                                      \o f.calls]]

-----------------------------------------------------------------------------
(* Estimator Facade: predict, predict_proba, score *)

\* the blocks a model's predict may emit per head: one probability column, or
\* a probability vector of two entries, for two samples
PredBlocks ==
    {NdArray("prob", <<2, 1>>, <<70, 20>>), NdArray("prob", <<2, 2>>, <<30, 70, 80, 20>>)}

\* self.model_.predict(X, **pred_args): one block per output head
ModelPredict(model, block) == [h \in 1..model.heads |-> block]

\* the pred_args of predict and predict_proba (lines 502-508, 953-959)
PredictArgs(model, kwargs) ==
    DictMerge(_filter_params(model.predict, EmptyDict),
              _filter_params(model.predict, kwargs))

\* the common body of predict and predict_proba: the fitted check, the
\* model's predict, _post_process_y; a regressor handed a list of outputs
\* fails on y.astype
PredictBody(op, kwargs, block) ==
    LET obs == [NoCall EXCEPT !.op = op, !.kwargs = kwargs]
        model == fitted.model_
        out == ModelPredict(model, block)
        post == PostProcessY(kind, fitted.meta, out)
        called == [obs EXCEPT !.predict_args = PredictArgs(model, kwargs),
                              !.calls = <<"model.predict", "_post_process_y">>]
    IN  IF ~fitted.is_fitted_
        THEN [obs EXCEPT !.err = "NotFittedError"]
        ELSE IF kind = "regressor" /\ model.heads # 1
        THEN [called EXCEPT !.err = "AttributeError"]
        ELSE IF post.err # "none"
        THEN [called EXCEPT !.err = post.err]
        ELSE [called EXCEPT !.ret = IF op = "predict_proba"
                                     THEN post.class_probabilities ELSE post.y]

\* BaseWrapper.predict
predict(kwargs, block) == PredictBody("predict", kwargs, block)

\* KerasClassifier.predict_proba
predict_proba(kwargs, block) == PredictBody("predict_proba", kwargs, block)

\* BaseWrapper.score: y is pre-processed (its extra_args dropped), then
\* predict is called, then the scorer (opaque, its value is not modelled)
score(y, sample_weight, kwargs, block) ==
    LET obs == [NoCall EXCEPT !.op = "score", !.y = y,
                              !.sample_weight = sample_weight, !.kwargs = kwargs]
        pre == PreProcessY(kind, y)
        p == predict(kwargs, block)
    IN  IF pre.err # "none"
        THEN [obs EXCEPT !.err = pre.err, !.calls = <<"_pre_process_y">>]
        ELSE [p EXCEPT !.op = "score", !.y = y, !.sample_weight = sample_weight,
                       !.calls = <<"_pre_process_y">> \o p.calls
                                 \o (IF p.err = "none" THEN <<"_scorer">> ELSE <<>>)]

-----------------------------------------------------------------------------
(* Estimator Facade: get_params, set_params *)

\* _get_param_names without the filter of line 581: the catch-all **sk_params
\* of __init__ is enumerated too
_get_param_names_WithVarKw == {"build_fn", "sk_params"} \cup _sk_params

\* BaseWrapper._get_param_names: the declared __init__ parameter and the
\* captured sk_params names
_get_param_names == {"build_fn"} \cup _sk_params

\* the parameter values held by an attribute pair (build_fn, sk)
ParamsOf(bf, skv) ==
    [n \in {"build_fn"} \cup DOMAIN skv |-> IF n = "build_fn" THEN bf ELSE skv[n]]

\* BaseWrapper.get_params (no attribute here has a get_params of its own)
get_params ==
    [n \in _get_param_names |-> IF n = "build_fn" THEN build_fn ELSE sk[n]]

\* setattr(self, key, value) on the pair (build_fn, sk)
SetAttr(attrs, key, value) ==
    IF key = "build_fn" THEN [attrs EXCEPT !.build_fn = value]
    ELSE [attrs EXCEPT !.sk = DictMerge(attrs.sk, [n \in {key} |-> value])]

\* SetParamsLoop with the check of line 638 lost: an unknown key is skipped
RECURSIVE SetParamsLoopSkipInvalid(_, _, _, _)
SetParamsLoopSkipInvalid(params, valid_params, attrs, nested) ==
    IF params = <<>> THEN [attrs |-> attrs, err |-> "none", nested |-> nested]
    ELSE LET key == Head(params).key[1]
             delim == Len(Head(params).key) > 1
         IN  IF key \notin valid_params
             THEN SetParamsLoopSkipInvalid(Tail(params), valid_params, attrs, nested)
             ELSE IF delim
             THEN SetParamsLoopSkipInvalid(Tail(params), valid_params, attrs,
                                           nested \cup {key})
             ELSE SetParamsLoopSkipInvalid(Tail(params), valid_params,
                                           SetAttr(attrs, key, Head(params).value),
                                           nested)

\* the loop of set_params over the items in argument order: a key is the
\* sequence of its "__"-separated parts; [attrs, err, nested]
RECURSIVE SetParamsLoop(_, _, _, _)
SetParamsLoop(params, valid_params, attrs, nested) ==
    IF params = <<>> THEN [attrs |-> attrs, err |-> "none", nested |-> nested]
    ELSE LET key == Head(params).key[1]
             delim == Len(Head(params).key) > 1
         IN  IF key \notin valid_params
             THEN [attrs |-> attrs, err |-> "ValueError", nested |-> nested]
             ELSE IF delim
             THEN SetParamsLoop(Tail(params), valid_params, attrs, nested \cup {key})
             ELSE SetParamsLoop(Tail(params), valid_params,
                                SetAttr(attrs, key, Head(params).value), nested)

\* BaseWrapper.set_params: [attrs, err]; no parameter value here is a nested
\* estimator, so valid_params[key].set_params is an AttributeError
set_params(params) ==
    LET attrs == [build_fn |-> build_fn, sk |-> sk]
        r == SetParamsLoop(params, DOMAIN get_params, attrs, {})
    IN  IF params = <<>> THEN [attrs |-> attrs, err |-> "none"]
        ELSE IF r.err # "none" THEN [attrs |-> r.attrs, err |-> r.err]
        ELSE IF r.nested # {} THEN [attrs |-> r.attrs, err |-> "AttributeError"]
        ELSE [attrs |-> r.attrs, err |-> "none"]

-----------------------------------------------------------------------------
(* State capture and restore: __getstate__, __setstate__ *)

\* the Model instances a build_fn may be: modelM compiled, modelU not
PrebuiltModel(b) ==
    [src |-> b, heads |-> 1, fit |-> "Model.fit", predict |-> "Model.predict",
     loss |-> IF b = "modelM" THEN "mean_squared_error" ELSE "none",
     trained |-> FALSE, weights |-> "prebuilt"]

\* the class of a model, which its fit operation shows
ClassOf(m) == IF m.fit = "Custom.fit" THEN "Custom" ELSE "Model"

\* SavedKerasModel(cls, model, training_config, weights) of lines 696-701:
\* serialize(obj) gives the class name and the architecture
SavedKerasModel(m) ==
    [cls |-> ClassOf(m),
     model |-> [class_name |-> ClassOf(m), heads |-> m.heads],
     training_config |-> m.loss,
     weights |-> m.weights]

\* copy.deepcopy(obj) raises TypeError: a Model, or an object holding one
RECURSIVE DeepCopyRaises(_)
DeepCopyRaises(obj) ==
    \/ obj.type = "Model"
    \/ obj.type = "History" /\ DeepCopyRaises(obj.model)

\* _pack_obj of __getstate__: [err, ret (the packed value), obj (the object
\* as the call leaves it)].  A model without training configuration gives a
\* KeyError at line 693; an object with a __dict__ is packed in place and
\* returned itself (lines 704-707)
RECURSIVE _pack_obj(_)
_pack_obj(obj) ==
    IF ~DeepCopyRaises(obj)
    THEN [err |-> "none", ret |-> obj, obj |-> obj]
    ELSE IF obj.type = "Model"
    THEN IF obj.m.loss = "none"
         THEN [err |-> "KeyError", ret |-> obj, obj |-> obj]
         ELSE [err |-> "none", ret |-> SavedObj(SavedKerasModel(obj.m)), obj |-> obj]
    ELSE LET inner == _pack_obj(obj.model)
             packed == [obj EXCEPT !.model = inner.ret]
         IN  IF inner.err # "none"
             THEN [err |-> inner.err, ret |-> obj, obj |-> obj]
             ELSE [err |-> "none", ret |-> packed, obj |-> packed]

\* the value of self.build_fn as an object
BuildFnObj(b) == IF IsModel(b) THEN ModelObj(PrebuiltModel(b)) ELSE PlainObj(b)

\* the value of self.model_ as an object
ModelAttr(m) == IF m.src = "none" THEN AbsentObj ELSE ModelObj(m)

\* no state captured
NoState ==
    [taken |-> FALSE, build_fn |-> AbsentObj, sk |-> EmptyDict, _sk_params |-> {},
     meta |-> NoMeta, model_ |-> AbsentObj, history_ |-> AbsentObj,
     is_fitted_ |-> FALSE]

\* BaseWrapper.__getstate__: [err, state, fitted (the attributes fit sets, as
\* the call leaves them)]; the attributes are packed in the order of
\* self.__dict__: build_fn, the sk_params, the label attributes, model_,
\* history_, is_fitted_
__getstate__ ==
    LET pb == _pack_obj(BuildFnObj(build_fn))
        pm == _pack_obj(ModelAttr(fitted.model_))
        ph == _pack_obj(fitted.history_)
    IN  IF pb.err # "none"
        THEN [err |-> pb.err, state |-> NoState, fitted |-> fitted]
        ELSE IF pm.err # "none"
        THEN [err |-> pm.err, state |-> NoState, fitted |-> fitted]
        ELSE IF ph.err # "none"
        THEN [err |-> ph.err, state |-> NoState, fitted |-> fitted]
        ELSE [err |-> "none",
              state |-> [taken |-> TRUE, build_fn |-> pb.ret, sk |-> sk,
                         _sk_params |-> _sk_params, meta |-> fitted.meta,
                         model_ |-> pm.ret, history_ |-> ph.ret,
                         is_fitted_ |-> fitted.is_fitted_],
              fitted |-> [fitted EXCEPT !.history_ = ph.obj]]

\* _unpack_obj without the set_weights of line 744
RestoredModel_NoWeights(saved) ==
    [src |-> "deserialize", heads |-> saved.model.heads,
     fit |-> saved.model.class_name \o ".fit", predict |-> "Model.predict",
     loss |-> saved.training_config, trained |-> FALSE, weights |-> "initial"]

\* lines 737-745: deserialize(obj.model), compile with the training
\* configuration, set_weights(obj.weights); the field cls is not read
RestoredModel(saved) ==
    [src |-> "deserialize", heads |-> saved.model.heads,
     fit |-> saved.model.class_name \o ".fit", predict |-> "Model.predict",
     loss |-> saved.training_config, trained |-> FALSE, weights |-> saved.weights]

\* _unpack_obj of __setstate__; an object with a __dict__ is unpacked in place
RECURSIVE _unpack_obj(_)
_unpack_obj(obj) ==
    IF obj.type = "SavedKerasModel" THEN ModelObj(RestoredModel(obj.saved))
    ELSE IF obj.type = "History" THEN [obj EXCEPT !.model = _unpack_obj(obj.model)]
    ELSE obj

\* BaseWrapper.__setstate__(state) on a new instance of the class: each key of
\* state becomes an attribute; [build_fn, sk, _sk_params, fitted]
__setstate__(state) ==
    LET b == _unpack_obj(state.build_fn)
        m == _unpack_obj(state.model_)
    IN  [build_fn |-> IF b.type = "Model" THEN "modelM" ELSE b.v,
         sk |-> state.sk,
         _sk_params |-> state._sk_params,
         fitted |-> [model_ |-> IF m.type = "absent" THEN NoModel ELSE m.m,
                     history_ |-> _unpack_obj(state.history_),
                     is_fitted_ |-> state.is_fitted_,
                     meta |-> state.meta]]

-----------------------------------------------------------------------------
(* Spec: one estimator instance and the calls made on it.  X and           *)
(* sample_weight are taken to pass check_X_y, check_array and              *)
(* _check_sample_weight.                                                   *)

\* bound: the entries the shared registry may grow to; a fit call starts only
\* while the registry has room for the entries one fit appends
MaxRegistry == 14

\* bound: the keyword arguments of one set_params call
MaxParams == 2

\* the label arrays of fit and score: two-valued string labels, an indicator
\* matrix, non-integral floats
YBinary == NdArray("str", <<3>>, <<1, 0, 1>>)

YMultilabel == NdArray("int", <<3, 2>>, <<1, 0, 0, 1, 1, 1>>)

YContinuous == NdArray("float", <<3>>, <<0, 2, 1>>)

Labels == {YBinary, YMultilabel, YContinuous}

SampleWeights == {"None", "fitW"}

\* the **kwargs of fit, predict, predict_proba and score
Kwargs == {EmptyDict, [n \in {"batch_size"} |-> "k1"]}

\* the estimators constructed: class, whether the class implements __call__,
\* build_fn and the sk_params
Estimators ==
    [kind : {"classifier"}, hasCall : {FALSE},
     build_fn : {"fnA", "objC", "None", "junk"}, sk : {EmptyDict}]
    \cup
    [kind : {"classifier"}, hasCall : {FALSE},
     build_fn : {"fnA", "modelM"}, sk : {[n \in {"batch_size", "X"} |-> "a1"]}]
    \cup
    [kind : {"regressor"}, hasCall : {FALSE},
     build_fn : {"fnA", "objC", "modelU"},
     sk : {[n \in {"batch_size", "sample_weight"} |-> "a1"]}]
    \cup
    [kind : {"classifier"}, hasCall : {TRUE},
     build_fn : {"None", "fnA", "objC", "modelM"},
     sk : {[n \in {"batch_size", "X"} |-> "a1"]}]

\* the items of a set_params call
ParamItems ==
    {[key |-> <<"build_fn">>, value |-> "objC"],
     [key |-> <<"batch_size">>, value |-> "a2"],
     [key |-> <<"bogus">>, value |-> "a2"],
     [key |-> <<"build_fn", "lr">>, value |-> "a2"]}

\* the keyword arguments of a set_params call: distinct keys, in call order
ParamLists ==
    UNION {{ps \in [1..n -> ParamItems] :
                \A i, j \in 1..n : i # j => ps[i].key # ps[j].key}
            : n \in 0..MaxParams}

\* BaseWrapper.__init__: build_fn and the sk_params become attributes
Init ==
    /\ \E e \in Estimators :
        /\ kind = e.kind
        /\ hasCall = e.hasCall
        /\ build_fn = e.build_fn
        /\ sk = e.sk
        /\ _sk_params = DOMAIN e.sk
    /\ pickled = NoState
    /\ fitted = NotFitted
    /\ registry = InitialRegistry
    /\ last = NoCall
    /\ resolved = NotResolved
    /\ lab = LabIdle

Fit ==
    /\ Len(registry) + 1 + Len(ModelKnownFns) <= MaxRegistry
    /\ \E y \in Labels, sample_weight \in SampleWeights, kwargs \in Kwargs,
          raises \in BOOLEAN :
        LET r == fit(y, sample_weight, kwargs, raises)
        IN  /\ fitted' = r.fitted
            /\ registry' = r.registry
            /\ last' = r.last
            /\ resolved' = IF r.last.final_build_fn = "none" THEN resolved
                           ELSE [form |-> FormOf(r.last.final_build_fn),
                                 build_fn |-> build_fn]
    /\ UNCHANGED <<_sk_params, pickled, kind, hasCall, build_fn, sk, lab>>

Predict ==
    /\ \E kwargs \in Kwargs, block \in PredBlocks :
        last' = predict(kwargs, block)
    /\ UNCHANGED <<_sk_params, pickled, kind, hasCall, build_fn, sk, fitted, registry, resolved, lab>>

PredictProba ==
    /\ kind = "classifier"
    /\ \E kwargs \in Kwargs, block \in PredBlocks :
        last' = predict_proba(kwargs, block)
    /\ UNCHANGED <<_sk_params, pickled, kind, hasCall, build_fn, sk, fitted, registry, resolved, lab>>

\* score storing the extra_args of _pre_process_y on the estimator, as fit
\* does at lines 459-460
Score_StoresExtraArgs ==
    /\ \E y \in Labels, sample_weight \in SampleWeights, block \in PredBlocks :
        /\ last' = score(y, sample_weight, EmptyDict, block)
        /\ fitted' = LET pre == PreProcessY(kind, y)
                     IN  IF pre.err # "none" THEN fitted
                         ELSE [fitted EXCEPT !.meta = SetExtraArgs(fitted.meta, pre.extra_args)]
    /\ UNCHANGED <<_sk_params, pickled, kind, hasCall, build_fn, sk, registry, resolved, lab>>

Score ==
    /\ \E y \in Labels, sample_weight \in SampleWeights, block \in PredBlocks :
        last' = score(y, sample_weight, EmptyDict, block)
    /\ UNCHANGED <<_sk_params, pickled, kind, hasCall, build_fn, sk, fitted, registry, resolved, lab>>

SetParams ==
    /\ \E params \in ParamLists :
        LET r == set_params(params)
        IN  /\ build_fn' = r.attrs.build_fn
            /\ sk' = r.attrs.sk
            /\ last' = [NoCall EXCEPT !.op = "set_params", !.params = params,
                                      !.err = r.err]
    /\ UNCHANGED <<_sk_params, pickled, kind, hasCall, fitted, registry, resolved, lab>>

Next == Fit \/ Predict \/ PredictProba \/ Score \/ SetParams

Spec == Init /\ [][Next]_vars

\* __getstate__ on the estimator
GetState ==
    /\ LET r == __getstate__
       IN  /\ fitted' = r.fitted
           /\ pickled' = IF r.err = "none" THEN r.state ELSE pickled
           /\ last' = [NoCall EXCEPT !.op = "__getstate__", !.err = r.err]
    /\ UNCHANGED <<kind, hasCall, build_fn, sk, _sk_params, registry, resolved, lab>>

\* a new instance of the estimator's class is made from the captured state
\* (as pickle.loads, copy.copy and copy.deepcopy do); it is the estimator from
\* then on
SetState ==
    /\ pickled.taken
    /\ LET r == __setstate__(pickled)
       IN  /\ build_fn' = r.build_fn
           /\ sk' = r.sk
           /\ _sk_params' = r._sk_params
           /\ fitted' = r.fitted
    /\ last' = [NoCall EXCEPT !.op = "__setstate__"]
    /\ resolved' = NotResolved
    /\ UNCHANGED <<kind, hasCall, registry, pickled, lab>>

\* __init__ giving every instance a registry of its own
Construct_OwnRegistry ==
    /\ \E e \in Estimators :
        /\ kind' = e.kind
        /\ hasCall' = e.hasCall
        /\ build_fn' = e.build_fn
        /\ sk' = e.sk
        /\ _sk_params' = DOMAIN e.sk
    /\ fitted' = NotFitted
    /\ resolved' = NotResolved
    /\ last' = [NoCall EXCEPT !.op = "__init__"]
    /\ registry' = InitialRegistry
    /\ UNCHANGED <<pickled, lab>>

\* another estimator instance is constructed and is the one operated on from
\* then on; _legal_params_fns is an attribute of the class BaseWrapper, which
\* __init__ does not assign, so the new instance reads the list the earlier
\* instances appended to
Construct ==
    /\ \E e \in Estimators :
        /\ kind' = e.kind
        /\ hasCall' = e.hasCall
        /\ build_fn' = e.build_fn
        /\ sk' = e.sk
        /\ _sk_params' = DOMAIN e.sk
    /\ fitted' = NotFitted
    /\ resolved' = NotResolved
    /\ last' = [NoCall EXCEPT !.op = "__init__"]
    /\ UNCHANGED <<registry, pickled, lab>>

SpecShared == Init /\ [][Fit \/ Construct]_vars

SpecPickle == Init /\ [][Fit \/ GetState \/ SetState]_vars

\* SpecLabels: the estimator variables rest at a fresh classifier
InitLabels ==
    /\ kind = "classifier"
    /\ hasCall = FALSE
    /\ build_fn = "None"
    /\ sk = EmptyDict
    /\ _sk_params = {}
    /\ pickled = NoState
    /\ fitted = NotFitted
    /\ registry = InitialRegistry
    /\ last = NoCall
    /\ resolved = NotResolved
    /\ InitLabelsLab

SpecLabels == InitLabels /\ [][NextLabels]_vars

\* SpecRouter: _filter_params called on a constructed estimator with each
\* callable in play and each candidate pool
RouterCallables ==
    {"fnA", "objC.__call__", "self.__call__", "_clone_prebuilt_model",
     "Model.fit", "Custom.fit", "Model.predict"}

RouterNames == {"X", "batch_size", "epochs"}

RouterPools ==
    UNION {[names -> {"k1"}] : names \in SUBSET RouterNames}

FilterParams ==
    /\ \E fn \in RouterCallables, params_to_check \in RouterPools :
        last' = [NoCall EXCEPT !.op = "_filter_params", !.fn = fn,
                               !.pool = params_to_check,
                               !.res = _filter_params(fn, params_to_check)]
    /\ UNCHANGED <<_sk_params, pickled, kind, hasCall, build_fn, sk, fitted, registry, resolved, lab>>

SpecRouter == Init /\ [][FilterParams]_vars

-----------------------------------------------------------------------------
(* Properties *)

\* the latest call took the named step
Took(obs, step) == step \in Range(obs.calls)

\* C1: on an estimator on which no fit call has completed, every predict,
\* predict_proba or score call ends with the not-fitted error and the model's
\* predict is not invoked.
C1_UnfittedCallsRaiseNotFitted ==
    (last.op \in {"predict", "predict_proba", "score"} /\ ~fitted.is_fitted_)
        => (last.err = "NotFittedError" /\ ~Took(last, "model.predict"))

\* C2: a fit in which the number of output blocks of the pre-processed labels
\* differs from the number of output heads of the constructed model raises a
\* construction error, and the model's fit is not invoked.
C2_HeadMismatchRaises ==
    (/\ last.op = "fit"
     /\ Took(last, "_check_output_model_compatibility")
     /\ Len(PreProcessY(kind, last.y).y) # fitted.model_.heads)
        => (last.err = "RuntimeError" /\ ~Took(last, "model.fit"))

\* a set_params argument list holds a top-level name that is no parameter
HasInvalidName(params, names) ==
    \E i \in DOMAIN params : params[i].key[1] \notin names

FirstInvalid(params, names) ==
    SetMin({i \in DOMAIN params : params[i].key[1] \notin names})

\* C3 as stated: a set_params call with an invalid top-level name raises and
\* leaves every parameter value as it was before the call.
C3_InvalidSetParamsChangesNothing ==
    [][(last'.op = "set_params" /\ HasInvalidName(last'.params, _get_param_names))
        => (last'.err # "none" /\ ParamsOf(build_fn', sk') = get_params)]_vars

\* C3 amended: a set_params call with an invalid top-level name raises
\* ValueError; a valid name passed on its own (no "__" part) before the first
\* invalid name holds the value passed, every other parameter keeps its value.
C3_InvalidSetParamsKeepsLaterNames ==
    [][(last'.op = "set_params" /\ HasInvalidName(last'.params, _get_param_names))
        => LET k == FirstInvalid(last'.params, _get_param_names)
               before(n) == {i \in 1..(k - 1) : last'.params[i].key = <<n>>}
               after == ParamsOf(build_fn', sk')
           IN  /\ last'.err = "ValueError"
               /\ DOMAIN after = _get_param_names
               /\ \A n \in _get_param_names :
                    after[n] = IF before(n) # {}
                               THEN last'.params[CHOOSE i \in before(n) : TRUE].value
                               ELSE get_params[n]]_vars

\* a set_params(batch_size=a2, bogus=...) call that raised after batch_size took
\* the new value
C3_Witness ==
    /\ last.op = "set_params"
    /\ last.err = "ValueError"
    /\ Len(last.params) = 2
    /\ last.params[1].key = <<"batch_size">>
    /\ last.params[2].key = <<"bogus">>
    /\ "batch_size" \in DOMAIN sk
    /\ sk["batch_size"] = last.params[1].value

\* the value the stated precedence gives a name: fit's kwargs, else fit's
\* sample_weight, else fit's X and y, else the instance attribute
ExpectedBuildArg(n) ==
    IF n \in DOMAIN last.kwargs THEN last.kwargs[n]
    ELSE IF n = "sample_weight" THEN last.sample_weight
    ELSE IF n = "X" THEN "fitX"
    ELSE IF n = "y" THEN "fitY"
    ELSE SelfDict[n]

\* C4: the build callable receives, for each name it declares, the value of
\* the latest source supplying it: instance attributes, then fit's X and y,
\* then fit's sample_weight, then fit's keyword arguments.
C4_BuildArgsPrecedence ==
    (last.op = "fit" /\ Took(last, "final_build_fn"))
        => \A n \in Declares(last.final_build_fn)
                    \cap (DOMAIN SelfDict \cup {"X", "y", "sample_weight"}
                          \cup DOMAIN last.kwargs) :
              /\ n \in DOMAIN last.build_args
              /\ last.build_args[n] = ExpectedBuildArg(n)

\* C5: pre-processing a label array, handing post-processing the model output
\* that encodes the blocks exactly, gives back the label array, up to squeezed
\* singleton dimensions and float casting.
C5_RoundTrip ==
    lab.stage = "post"
        => /\ lab.res.err = "none"
           /\ lab.res.y.shape = np_squeeze(lab.y).shape
           /\ lab.res.y.data = lab.y.data

\* C6 as stated: once a fit has completed, every later resolution gives the
\* same form of build specification.
C6_FormNeverChanges ==
    [][fitted.is_fitted_ => resolved'.form = resolved.form]_vars

\* C6 amended: once a fit has completed, a later fit resolves the form of the
\* previous resolution whenever build_fn holds the value it held then; only
\* set_params assigns build_fn.
C6_FormFollowsBuildFn ==
    [][/\ (fitted.is_fitted_ /\ build_fn = resolved.build_fn)
            => resolved'.form = resolved.form
       /\ build_fn' # build_fn => last'.op = "set_params"]_vars

\* a second resolving fit of a fitted estimator, build_fn as at the first
C6_Witness ==
    /\ fitted.is_fitted_
    /\ last.op = "fit"
    /\ last.final_build_fn # "none"
    /\ Len(registry) = Len(InitialRegistry) + 2 * (1 + Len(ModelKnownFns))
    /\ resolved.build_fn = build_fn
    /\ registry[Len(InitialRegistry) + 1] = last.final_build_fn

\* the cases in which build-spec resolution is to fail
ResolutionErrorCase ==
    \/ build_fn = "None" /\ ~hasCall
    \/ IsCallable(build_fn) /\ ~IsModel(build_fn) /\ hasCall
    \/ build_fn # "None" /\ ~IsModel(build_fn) /\ ~IsCallable(build_fn)

\* C7: in each of those cases the resolution of a fit raises a configuration
\* error, no build callable is invoked, nothing is appended to the registry
\* and the fitted flag keeps its value.
C7_ResolutionErrors ==
    [][(last'.op = "fit" /\ Took(last', "_check_build_fn") /\ ResolutionErrorCase)
        => /\ last'.err = "ValueError"
           /\ ~Took(last', "final_build_fn")
           /\ registry' = registry
           /\ fitted'.is_fitted_ = fitted.is_fitted_]_vars

\* a fitted estimator implementing __call__ whose build_fn was set to a
\* callable object: the next fit fails in the resolution
C7_Witness ==
    /\ last.op = "fit"
    /\ last.err = "ValueError"
    /\ last.calls = <<"_pre_process_y", "_check_build_fn">>
    /\ hasCall
    /\ build_fn = "objC"
    /\ fitted.is_fitted_

\* C8: a non-null sample_weight reaches the model's fit only if that fit
\* declares sample_weight; if it does not, fit raises a configuration error,
\* the model's fit is not invoked and the fitted flag keeps its value; a null
\* sample_weight is not put into the fit arguments (a sample_weight the model's
\* fit then receives is the instance attribute of that name).
C8_SampleWeightRouting ==
    [][last'.op = "fit"
        => /\ (Took(last', "model.fit") /\ last'.sample_weight # "None")
                => /\ "sample_weight" \in Declares(fitted'.model_.fit)
                   /\ "sample_weight" \in DOMAIN last'.fit_args
                   /\ last'.fit_args["sample_weight"] = last'.sample_weight
           /\ (/\ Took(last', "_check_output_model_compatibility")
               /\ last'.err # "RuntimeError"
               /\ last'.sample_weight # "None"
               /\ "sample_weight" \notin Declares(fitted'.model_.fit))
                => /\ last'.err = "ValueError"
                   /\ ~Took(last', "model.fit")
                   /\ fitted'.is_fitted_ = fitted.is_fitted_
           /\ (/\ Took(last', "model.fit")
               /\ last'.sample_weight = "None"
               /\ "sample_weight" \in DOMAIN last'.fit_args)
                => /\ "sample_weight" \in DOMAIN sk
                   /\ last'.fit_args["sample_weight"] = sk["sample_weight"]]_vars

\* a fitted estimator refitted with a sample_weight its new model's fit does
\* not declare
C8_Witness ==
    /\ last.op = "fit"
    /\ last.err = "ValueError"
    /\ last.sample_weight = "fitW"
    /\ Took(last, "_check_output_model_compatibility")
    /\ "sample_weight" \notin Declares(fitted.model_.fit)
    /\ fitted.is_fitted_

\* C9: a regressor fit on labels with an entry that cannot be cast to float
\* raises before the build callable is invoked and leaves the estimator's
\* attributes and the registry as they were.
C9_RegressorRejectsUncastable ==
    [][(last'.op = "fit" /\ kind = "regressor" /\ last'.y.dtype = "str")
        => /\ last'.err = "ValueError"
           /\ ~Took(last', "final_build_fn")
           /\ fitted' = fitted
           /\ registry' = registry
           /\ build_fn' = build_fn
           /\ sk' = sk]_vars

\* a fitted regressor whose next fit was given string labels
C9_Witness ==
    /\ kind = "regressor"
    /\ last.op = "fit"
    /\ last.y.dtype = "str"
    /\ last.err = "ValueError"
    /\ fitted.is_fitted_

\* C10: a keyword argument of fit, predict or predict_proba that has the name
\* of an instance attribute and is declared by the model operation invoked
\* reaches that operation with the keyword argument's value.
C10_KwargBeatsAttribute ==
    /\ (last.op = "fit" /\ Took(last, "model.fit"))
        => \A n \in DOMAIN last.kwargs \cap DOMAIN SelfDict
                    \cap Declares(fitted.model_.fit) :
              n \in DOMAIN last.fit_args /\ last.fit_args[n] = last.kwargs[n]
    /\ (last.op \in {"predict", "predict_proba"} /\ Took(last, "model.predict"))
        => \A n \in DOMAIN last.kwargs \cap DOMAIN SelfDict
                    \cap Declares(fitted.model_.predict) :
              n \in DOMAIN last.predict_args /\ last.predict_args[n] = last.kwargs[n]

\* a fit with batch_size both an attribute and a keyword argument
C10_Witness ==
    /\ last.op = "fit"
    /\ Took(last, "model.fit")
    /\ "batch_size" \in DOMAIN sk
    /\ "batch_size" \in DOMAIN last.kwargs
    /\ "batch_size" \in DOMAIN last.fit_args
    /\ last.fit_args["batch_size"] = last.kwargs["batch_size"]

\* C11: the mapping _filter_params returns holds only keys the callable
\* declares as explicitly named parameters, each a key of the candidate pool
\* with the pool's value.
C11_FilterReturnsPoolEntries ==
    last.op = "_filter_params"
        => \A n \in DOMAIN last.res :
              /\ n \in Declares(last.fn)
              /\ n \in DOMAIN last.pool
              /\ last.res[n] = last.pool[n]

\* the classifier's labels were tagged binary and hold two distinct values
TwoValued ==
    /\ lab.est = "classifier"
    /\ lab.stage \in {"pre", "enc", "emit", "post", "decoded"}
    /\ lab.meta.cls_type_ = "binary"
    /\ Cardinality(Range(lab.y.data)) = 2

\* C12: for two-valued labels the vocabulary is the two values in ascending
\* order and there is one block holding each label's position in it; a single
\* emitted probability column p decodes to vocabulary[1] where p > 0.5 and to
\* vocabulary[0] elsewhere, with the probability pair [1 - p, p].
C12_BinaryVocabularyAndThreshold ==
    TwoValued =>
        LET voc == lab.meta.classes_[1]
            n == Len(lab.y.data)
        IN  /\ Len(lab.meta.classes_) = 1
            /\ Len(voc) = 2
            /\ voc[1] < voc[2]
            /\ Range(voc) = Range(lab.y.data)
            /\ Len(lab.blocks) = 1
            /\ Len(lab.blocks[1].data) = n
            /\ \A k \in 1..n :
                  /\ lab.blocks[1].data[k] \in {0, 1}
                  /\ voc[lab.blocks[1].data[k] + 1] = lab.y.data[k]
            /\ lab.stage = "decoded" =>
                  /\ lab.res.err = "none"
                  /\ Len(lab.res.y.data) = n
                  /\ Len(lab.res.class_probabilities.data) = 2 * n
                  /\ \A k \in 1..n :
                        LET p == lab.out[1].data[k]
                        IN  /\ lab.res.y.data[k] = IF p > 50 THEN voc[2] ELSE voc[1]
                            /\ lab.res.class_probabilities.data[2 * k - 1] = 100 - p
                            /\ lab.res.class_probabilities.data[2 * k] = p

\* string labels 2, 0, 2 decoded from the probabilities 0.7, 0.5, 0.3
C12_Witness ==
    /\ TwoValued
    /\ lab.stage = "decoded"
    /\ lab.y = NdArray("str", <<3>>, <<2, 0, 2>>)
    /\ lab.out[1].data = <<70, 50, 30>>
    /\ lab.res.y.data = <<2, 0, 0>>
    /\ lab.res.class_probabilities.data = <<30, 70, 50, 50, 70, 30>>

\* C13: restoring the state just captured from a fitted estimator gives an
\* estimator whose stored model has the architecture, the training
\* configuration and the weights of the model captured, predicts as it does,
\* and whose fitted flag and label metadata are those of the estimator captured.
C13_CaptureRestoreRoundTrip ==
    [][(/\ last.op = "__getstate__"
        /\ last.err = "none"
        /\ fitted.is_fitted_
        /\ last'.op = "__setstate__")
        => /\ ClassOf(fitted'.model_) = ClassOf(fitted.model_)
           /\ fitted'.model_.heads = fitted.model_.heads
           /\ fitted'.model_.fit = fitted.model_.fit
           /\ fitted'.model_.predict = fitted.model_.predict
           /\ fitted'.model_.loss = fitted.model_.loss
           /\ fitted'.model_.weights = fitted.model_.weights
           /\ \A block \in PredBlocks :
                 ModelPredict(fitted'.model_, block) = ModelPredict(fitted.model_, block)
           /\ fitted'.is_fitted_
           /\ fitted'.meta = fitted.meta]_vars

\* a classifier fitted on binary labels, restored from its captured state with
\* the fitted weights
C13_Witness ==
    /\ last.op = "__setstate__"
    /\ kind = "classifier"
    /\ fitted.is_fitted_
    /\ fitted.meta.cls_type_ = "binary"
    /\ fitted.model_.src = "deserialize"
    /\ fitted.model_.weights = "fitted"

\* C14: every name the parameter-name enumeration returns is a readable
\* attribute of the estimator, and get_params returns exactly those names.
C14_ParamNamesAreAttributes ==
    /\ \A n \in _get_param_names : n \in DOMAIN SelfDict
    /\ DOMAIN get_params = _get_param_names

\* a fitted estimator constructed with keyword parameters, after a set_params
\* call that assigned one of them
C14_Witness ==
    /\ last.op = "set_params"
    /\ last.err = "none"
    /\ Len(last.params) > 0
    /\ "batch_size" \in _sk_params
    /\ sk["batch_size"] = "a2"
    /\ fitted.is_fitted_

\* C15: a predict, predict_proba or score call, returning or raising, leaves
\* the stored model, the fitted flag, the label metadata, the parameter values
\* and the registry as they were.
C15_ReadersLeaveStateUnchanged ==
    [][last'.op \in {"predict", "predict_proba", "score"}
        => /\ fitted' = fitted
           /\ build_fn' = build_fn
           /\ sk' = sk
           /\ _sk_params' = _sk_params
           /\ registry' = registry]_vars

\* a classifier fitted on binary labels has scored an indicator matrix: its
\* label metadata are still those of the fit
C15_Witness ==
    /\ kind = "classifier"
    /\ last.op = "score"
    /\ last.err = "none"
    /\ last.y = YMultilabel
    /\ fitted.is_fitted_
    /\ fitted.meta.cls_type_ = "binary"

\* C16: while the fitted flag is set the stored model is one whose fit was
\* invoked and returned, so the predict operation is only ever invoked on
\* such a model.
C16_FittedFlagMeansTrainedModel ==
    /\ fitted.is_fitted_ => fitted.model_.trained
    /\ (last.op \in {"predict", "predict_proba", "score"} /\ Took(last, "model.predict"))
        => fitted.model_.trained

\* the steps of a fit call that completes, in order
FitSteps ==
    <<"_pre_process_y", "_check_build_fn", "final_build_fn",
      "_check_output_model_compatibility", "model.fit", "is_fitted_">>

\* C17: the steps a fit call took are an initial part of: pre-process the
\* labels, resolve the build specification, invoke the build callable, check
\* the output count, invoke the model's fit, set the fitted flag (each once);
\* the flag is set by the call only after the model's fit returned, and the
\* call that completes took all the steps and returns the estimator.
C17_FitStepOrder ==
    [][last'.op = "fit"
        => /\ \/ last'.calls = <<"check_array">>
              \/ /\ Len(last'.calls) <= Len(FitSteps)
                 /\ last'.calls = SubSeq(FitSteps, 1, Len(last'.calls))
           /\ last'.err = "none" <=> last'.calls = FitSteps
           /\ last'.err = "none" => (fitted'.is_fitted_ /\ last'.returns = "self")
           /\ last'.err # "none" => fitted'.is_fitted_ = fitted.is_fitted_]_vars

\* a first fit that took every step
C17_Witness ==
    /\ last.op = "fit"
    /\ last.err = "none"
    /\ last.calls = FitSteps
    /\ last.returns = "self"
    /\ Len(registry) = Len(InitialRegistry) + 1 + Len(ModelKnownFns)
    /\ fitted.is_fitted_

\* C18: the registry is one list for all instances: an instance constructed
\* later reads the entries appended through earlier ones; over every step the
\* earlier content is an initial part of the later content; and a fit whose
\* build specification resolves appends the resolved build callable.
C18_RegistrySharedAndGrowing ==
    [][/\ Len(registry) <= Len(registry')
       /\ SubSeq(registry', 1, Len(registry)) = registry
       /\ last'.op = "__init__" => registry' = registry
       /\ (last'.op = "fit" /\ last'.final_build_fn # "none")
            => /\ Len(registry') > Len(registry)
               /\ registry'[Len(registry) + 1] = last'.final_build_fn]_vars

\* the fit of a second instance appended its build callable behind the
\* entries the fit of a first instance, with another build_fn, had appended
C18_Witness ==
    /\ last.op = "fit"
    /\ last.final_build_fn # "none"
    /\ Len(registry) = Len(InitialRegistry) + 2 * (1 + Len(ModelKnownFns))
    /\ registry[Len(InitialRegistry) + 1] = "fnA"
    /\ registry[Len(InitialRegistry) + Len(ModelKnownFns) + 2] = "objC.__call__"
    /\ last.final_build_fn = "objC.__call__"

\* C19: every entry of every block classifier pre-processing produces is a
\* position in that block's class vocabulary, and the vocabulary holds the
\* original label of that sample and output at that position.
C19_BlockEntriesIndexVocabulary ==
    (lab.est = "classifier" /\ lab.stage = "pre")
        => LET y == BaseWrapper_pre_process_y(lab.y)
           IN  \A i \in DOMAIN lab.blocks :
                 \A r \in 1..NRows(lab.blocks[i]) :
                   LET e == At(lab.blocks[i], r, 1)
                       voc == lab.meta.classes_[i]
                   IN  /\ e \in 0..(Len(voc) - 1)
                       /\ voc[e + 1] = At(y, r, i)

\* C20: __getstate__ leaves every attribute of the estimator, and every
\* attribute of every object reachable from it, with the value it had.
C20_CaptureLeavesEstimatorUnchanged ==
    [][last'.op = "__getstate__"
        => /\ fitted' = fitted
           /\ build_fn' = build_fn
           /\ sk' = sk
           /\ _sk_params' = _sk_params]_vars

=============================================================================
